---- MODULE Spec2Model ----
(***************************************************************************)
(* Model of the CPU tracker member script (src/main.py): one run of the    *)
(* __main__ block, from Client.load() to the second save().                *)
(*                                                                         *)
(* Floats are modelled as exact rationals [num, den] in lowest terms;      *)
(* [num |-> 0, den |-> 0] stands for a name that holds no number yet.      *)
(* The file system is two partial maps (policy files and data files) and   *)
(* the set of existing directories.  External collaborators (psutil, the   *)
(* DP library's randomness, the wall clock, I/O failures) are inputs       *)
(* drawn from small sets.                                                   *)
(***************************************************************************)
EXTENDS Integers, Sequences, FiniteSets, TLC

VARIABLES pc, err, config, client, dirs, acl, files, cpu_usage_values, mean,
          mean_with_noise, noise, clock, executed, sampler_log

vars == <<pc, err, config, client, dirs, acl, files, cpu_usage_values, mean,
          mean_with_noise, noise, clock, executed, sampler_log>>

(***************************************************************************)
(* Bounds of the model                                                     *)
(***************************************************************************)
\* psutil readings are drawn from NumLevels+1 evenly spaced percentages
NumLevels == 1
\* the reading changes at most this many times during one collection
MaxChanges == 1
\* unit Laplace draws are k * DrawStep thousandths, |k| <= MaxDrawSteps
MaxDrawSteps == 1
DrawStep == 626
\* the wall clock is read in ticks 0..MaxTick, TicksPerSecond ticks a second
MaxTick == 2
TicksPerSecond == 2

(***************************************************************************)
(* Program constants                                                       *)
(***************************************************************************)
NumSamples == 50
RoundDigits == 2
LowerBound == 0
UpperBound == 100
Epsilon == [num |-> 1, den |-> 2]
AggregatorEmail == "aggregator@openmined.org"
\* the identities the datasite's configuration can name as its owner: any
\* address, the aggregator's own included
Emails == {"member@example.org", AggregatorEmail}

(***************************************************************************)
(* Rational arithmetic standing for float arithmetic                       *)
(***************************************************************************)
RECURSIVE GCD(_, _)
GCD(a, b) == IF b = 0 THEN a ELSE GCD(b, a % b)

Abs(x) == IF x < 0 THEN -x ELSE x

NoValue == [num |-> 0, den |-> 0]

Frac(n, d) ==
    LET s == IF d < 0 THEN -1 ELSE 1
        g == GCD(Abs(n), Abs(d))
    IN  [num |-> (s * n) \div g, den |-> (s * d) \div g]

FromInt(n) == [num |-> n, den |-> 1]

FAdd(x, y) == Frac(x.num * y.den + y.num * x.den, x.den * y.den)

FDiv(x, y) == Frac(x.num * y.den, x.den * y.num)

FLess(x, y) == x.num * y.den < y.num * x.den

RECURSIVE SumSeq(_)
SumSeq(xs) == IF xs = <<>> THEN 0 ELSE Head(xs) + SumSeq(Tail(xs))

(***************************************************************************)
(* Pure functions of the script and of its libraries                       *)
(***************************************************************************)
\* statistics.mean(data): exact sum of the data divided by their number
statistics_mean_skip_first(data) == Frac(SumSeq(Tail(data)), Len(data))
statistics_mean(data) == Frac(SumSeq(data), Len(data))

\* clip_to_bounds of the DP library: every value forced into [lower, upper]
clip_to_bounds(array, lower, upper) ==
    [i \in 1..Len(array) |->
        IF array[i] < lower THEN lower
        ELSE IF array[i] > upper THEN upper ELSE array[i]]

\* truncation of the mechanism's output to [lower, upper]
truncate(x, lower, upper) ==
    IF FLess(x, FromInt(lower)) THEN FromInt(lower)
    ELSE IF FLess(FromInt(upper), x) THEN FromInt(upper) ELSE x

\* dp.mean(array, epsilon, bounds): mean of the clipped array plus Laplace
\* noise of scale sensitivity / epsilon, sensitivity = (upper - lower) / n,
\* truncated to the bounds.  draw is the unit Laplace draw in thousandths.
dp_mean_from_exact(array, epsilon, lower, upper, draw) == mean
dp_mean(array, epsilon, lower, upper, draw) ==
    LET clipped     == clip_to_bounds(array, lower, upper)
        actual_mean == Frac(SumSeq(clipped), Len(clipped))
        sensitivity == Frac(upper - lower, Len(clipped))
        scale       == FDiv(sensitivity, epsilon)
        laplace     == Frac(draw * scale.num, 1000 * scale.den)
    IN  truncate(FAdd(actual_mean, laplace), lower, upper)

RECURSIVE Pow10(_)
Pow10(n) == IF n = 0 THEN 1 ELSE 10 * Pow10(n - 1)

\* round(x, ndigits): nearest multiple of 10^-ndigits, ties to even
round(x, ndigits) ==
    LET m == Pow10(ndigits)
        q == (x.num * m) \div x.den
        r == (x.num * m) % x.den
        n == IF 2 * r < x.den THEN q
             ELSE IF 2 * r > x.den THEN q + 1
             ELSE IF q % 2 = 0 THEN q ELSE q + 1
    IN  Frac(n, m)

\* datetime.now(UTC) at tick t; tick 0 is 2024-12-31 23:59:59.000000
datetime_now(t) ==
    LET total == 86399 + (t \div TicksPerSecond)
        next  == total >= 86400
        sod   == IF next THEN total - 86400 ELSE total
    IN  [year   |-> IF next THEN 2025 ELSE 2024,
         month  |-> IF next THEN 1 ELSE 12,
         day    |-> IF next THEN 1 ELSE 31,
         hour   |-> sod \div 3600,
         minute |-> (sod % 3600) \div 60,
         second |-> sod % 60,
         microsecond |-> (t % TicksPerSecond) * (1000000 \div TicksPerSecond)]

\* strftime("%Y-%m-%d %H:%M:%S"): the six fields, microseconds dropped
strftime(dt) == <<dt.year, dt.month, dt.day, dt.hour, dt.minute, dt.second>>

\* SyftPermission.datasite_default(email): a fresh owner-only policy
datasite_default(email) ==
    [admin |-> <<email>>, read |-> <<email>>, write |-> <<email>>]

\* the policy create_restricted_public_folder saves
PublicPolicy(email) ==
    LET permissions == datasite_default(email)
    IN  [permissions EXCEPT !.read = Append(@, AggregatorEmail)]

\* the policy create_private_folder saves
PrivatePolicyShared(email) == PublicPolicy(email)
PrivatePolicy(email) == datasite_default(email)

\* the two folders, relative to client.datasite_path, and their data files
PublicFolder == <<"app_pipelines", "cpu_tracker">>
PrivateFolder == <<"private", "cpu_tracker">>
Folders == {PublicFolder, PrivateFolder}
DataFile(folder) == Append(folder, "cpu_tracker.json")
public_mean_file == DataFile(PublicFolder)
private_mean_file == DataFile(PrivateFolder)

\* open(path, "w") followed by json.dump: the file holds the one record
WriteFileAppend(fs, path, record) ==
    [q \in DOMAIN fs \cup {path} |->
        IF q = path
        THEN (IF path \in DOMAIN fs THEN Append(fs[path], record)
              ELSE <<record>>)
        ELSE fs[q]]
WriteFile(fs, path, record) ==
    [q \in DOMAIN fs \cup {path} |-> IF q = path THEN <<record>> ELSE fs[q]]

\* open(path, "w") succeeded and json.dump failed: the file is left empty
TruncateFile(fs, path) ==
    [q \in DOMAIN fs \cup {path} |-> IF q = path THEN <<>> ELSE fs[q]]

\* permissions.save(folder)
SavePolicy(a, folder, policy) ==
    [q \in DOMAIN a \cup {folder} |-> IF q = folder THEN policy ELSE a[q]]

\* the record save() builds
Record(cpu_usage, t) ==
    [cpu |-> cpu_usage, timestamp |-> strftime(datetime_now(t))]

\* what an earlier run left in a folder's data file (written on 2024-12-30)
OldRecord == [cpu |-> FromInt(1), timestamp |-> <<2024, 12, 30, 12, 0, 0>>]

\* readings psutil.cpu_percent() can return
Readings == {(100 * k) \div NumLevels : k \in 0..NumLevels}

Changes(xs) == Cardinality({i \in 1..(Len(xs) - 1) : xs[i] # xs[i + 1]})

Draws == {k * DrawStep : k \in (-MaxDrawSteps)..MaxDrawSteps}

(***************************************************************************)
(* The run                                                                 *)
(***************************************************************************)
\* the statements of __main__ in program order
ProgramOrder ==
    <<"Client.load", "create_restricted_public_folder",
      "create_private_folder", "get_cpu_usage_samples", "mean", "dp.mean",
      "save_public", "save_private">>

\* the statement that follows statement number i
SuccessorSwapped(i) ==
    IF i = 6 THEN "save_private"
    ELSE IF i = 8 THEN "save_public"
    ELSE IF i = 7 THEN "done"
    ELSE ProgramOrder[i + 1]
Successor(i) ==
    IF i = Len(ProgramOrder) THEN "done" ELSE ProgramOrder[i + 1]

\* an exception leaves __main__: nothing catches it
RaiseAndContinue(step, i) == pc' = Successor(i) /\ err' = step
Raise(step, i) == pc' = "aborted" /\ err' = step

Begin(step) == pc = step /\ executed' = Append(executed, step)

\* the arguments of the two save() calls
PublicValueLeak == mean
PublicValue == mean_with_noise
PrivateValue == mean

\* while len(cpu_usage_values) < 50
LoopCondOffByOne(values) == Len(values) <= NumSamples
LoopCond(values) == Len(values) < NumSamples

Init ==
    /\ pc = "Client.load"
    /\ err = "none"
    /\ config \in [email : Emails]
    /\ client = [email |-> "", loaded |-> FALSE]
    /\ \E prior \in SUBSET Folders :
          /\ dirs = prior
          /\ acl = [f \in prior |-> IF f = PublicFolder
                                    THEN PublicPolicy(config.email)
                                    ELSE PrivatePolicy(config.email)]
          /\ files = [p \in {DataFile(f) : f \in prior} |-> <<OldRecord>>]
    /\ cpu_usage_values = <<>>
    /\ mean = NoValue
    /\ mean_with_noise = NoValue
    /\ noise = 0
    /\ clock = 0
    /\ executed = <<>>
    /\ sampler_log = <<>>

\* client = Client.load()
LoadClient ==
    /\ Begin("Client.load")
    /\ \/ /\ client' = [email |-> config.email, loaded |-> TRUE]
          /\ pc' = Successor(1)
          /\ UNCHANGED err
       \/ /\ Raise("Client.load", 1)
          /\ UNCHANGED client
    /\ UNCHANGED <<config, dirs, acl, files, cpu_usage_values, mean,
                   mean_with_noise, noise, clock, sampler_log>>

\* a folder function: os.makedirs(exist_ok=True), then permissions.save
CreateFolder(step, i, folder, policy) ==
    /\ Begin(step)
    /\ \/ /\ dirs' = dirs \cup {folder}
          /\ acl' = SavePolicy(acl, folder, policy)
          /\ pc' = Successor(i)
          /\ UNCHANGED err
       \/ \* os.makedirs raises
          /\ folder \notin dirs
          /\ Raise(step, i)
          /\ UNCHANGED <<dirs, acl>>
       \/ \* permissions.save raises
          /\ dirs' = dirs \cup {folder}
          /\ Raise(step, i)
          /\ UNCHANGED acl
    /\ UNCHANGED <<config, client, files, cpu_usage_values, mean, mean_with_noise,
                   noise, clock, sampler_log>>

create_restricted_public_folder ==
    CreateFolder("create_restricted_public_folder", 2, PublicFolder,
                 PublicPolicy(client.email))

create_private_folder ==
    CreateFolder("create_private_folder", 3, PrivateFolder,
                 PrivatePolicy(client.email))

\* get_cpu_usage_samples is called: cpu_usage_values = []
EnterSampling ==
    /\ Begin("get_cpu_usage_samples")
    /\ cpu_usage_values' = <<>>
    /\ pc' = "sampling"
    /\ UNCHANGED <<err, config, client, dirs, acl, files, mean, mean_with_noise,
                   noise, clock, sampler_log>>

\* one iteration of the loop: psutil.cpu_percent(), append, sleep
SampleIteration ==
    /\ pc = "sampling"
    /\ LoopCond(cpu_usage_values)
    /\ \/ \E cpu_usage \in Readings :
             /\ Changes(Append(sampler_log, cpu_usage)) <= MaxChanges
             /\ sampler_log' = Append(sampler_log, cpu_usage)
             /\ cpu_usage_values' = Append(cpu_usage_values, cpu_usage)
             /\ UNCHANGED <<pc, err>>
       \/ /\ Raise("get_cpu_usage_samples", 4)
          /\ UNCHANGED <<cpu_usage_values, sampler_log>>
    /\ UNCHANGED <<config, client, dirs, acl, files, mean, mean_with_noise, noise,
                   clock, executed>>

\* the loop condition fails: return cpu_usage_values
SamplingReturn ==
    /\ pc = "sampling"
    /\ ~LoopCond(cpu_usage_values)
    /\ pc' = Successor(4)
    /\ UNCHANGED <<err, config, client, dirs, acl, files, cpu_usage_values, mean,
                   mean_with_noise, noise, clock, executed, sampler_log>>

\* mean = mean(cpu_usage_samples)
ComputeMean ==
    /\ Begin("mean")
    /\ IF cpu_usage_values = <<>>
       THEN \* statistics.mean raises StatisticsError on empty data
            /\ Raise("mean", 5)
            /\ UNCHANGED mean
       ELSE /\ mean' = statistics_mean(cpu_usage_values)
            /\ pc' = Successor(5)
            /\ UNCHANGED err
    /\ UNCHANGED <<config, client, dirs, acl, files, cpu_usage_values,
                   mean_with_noise, noise, clock, sampler_log>>

\* mean_with_noise = round(dp.mean(cpu_usage_samples, 0.5, (0, 100)), 2)
ComputeNoisedMean ==
    /\ Begin("dp.mean")
    /\ \/ \E draw \in Draws :
             /\ cpu_usage_values # <<>>
             /\ noise' = draw
             /\ mean_with_noise' =
                   round(dp_mean(cpu_usage_values, Epsilon, LowerBound,
                                 UpperBound, draw), RoundDigits)
             /\ pc' = Successor(6)
             /\ UNCHANGED err
       \/ /\ Raise("dp.mean", 6)
          /\ UNCHANGED <<noise, mean_with_noise>>
    /\ UNCHANGED <<config, client, dirs, acl, files, cpu_usage_values, mean, clock,
                   sampler_log>>

\* save(path, cpu_usage): the clock is read, the file opened and written
save(step, i, path, cpu_usage) ==
    /\ Begin(step)
    /\ \E t \in clock..MaxTick :
          /\ clock' = t
          /\ \/ /\ files' = WriteFile(files, path, Record(cpu_usage, t))
                /\ pc' = Successor(i)
                /\ UNCHANGED err
             \/ \* open raises
                /\ Raise(step, i)
                /\ UNCHANGED files
             \/ \* json.dump raises after open truncated the file
                /\ files' = TruncateFile(files, path)
                /\ Raise(step, i)
    /\ UNCHANGED <<config, client, dirs, acl, cpu_usage_values, mean,
                   mean_with_noise, noise, sampler_log>>

SavePublic == save("save_public", 7, public_mean_file, PublicValue)

SavePrivate == save("save_private", 8, private_mean_file, PrivateValue)

Next ==
    \/ LoadClient
    \/ create_restricted_public_folder
    \/ create_private_folder
    \/ EnterSampling
    \/ SampleIteration
    \/ SamplingReturn
    \/ ComputeMean
    \/ ComputeNoisedMean
    \/ SavePublic
    \/ SavePrivate

Spec == Init /\ [][Next]_vars

\* the interpreter keeps executing the collection loop: while a sampler call
\* can return or raise, or the loop can exit, one of them happens
FairSpec == Spec /\ WF_vars(SampleIteration \/ SamplingReturn)

(***************************************************************************)
(* Vocabulary of the properties                                            *)
(***************************************************************************)
Range(xs) == {xs[i] : i \in 1..Len(xs)}

Terminated == pc \in {"done", "aborted"}

\* the file is as the run found it: still absent, or still the old record
Untouched(path) == path \notin DOMAIN files \/ files[path] = <<OldRecord>>

\* the file holds a record that this run wrote
UpdatedByRun(path) ==
    /\ path \in DOMAIN files
    /\ files[path] # <<>>
    /\ files[path] # <<OldRecord>>

IsPrefix(xs, ys) ==
    /\ Len(xs) <= Len(ys)
    /\ \A i \in 1..Len(xs) : xs[i] = ys[i]

\* the number x lies within half a hundredth of target / 5 hundredths,
\* and is a whole number of hundredths
NearestHundredth(x, target) ==
    /\ x.den > 0
    /\ 100 % x.den = 0
    /\ LET h == x.num * (100 \div x.den)
           d == 5 * h - target
       IN  2 * Abs(d) <= 5

\* 500 times the DP estimate of the series for the draw, from the script's
\* parameters: mean S/50, Laplace scale (100/50)/0.5 = 4, result kept in
\* [0, 100]
NoisedTarget(series, draw) ==
    LET raw == 10 * SumSeq(series) + 2 * draw
    IN  IF raw < 0 THEN 0 ELSE IF raw > 50000 THEN 50000 ELSE raw

\* policies follow directories, data files follow policies
PolicyOrder ==
    /\ DOMAIN acl \subseteq dirs
    /\ Len(executed) >= 3 => PublicFolder \in DOMAIN acl
    /\ Len(executed) >= 4 => PrivateFolder \in DOMAIN acl
    /\ \A f \in Folders :
          (DataFile(f) \in DOMAIN files /\ ~Untouched(DataFile(f))) =>
              /\ f \in DOMAIN acl
              /\ IsPrefix(SubSeq(ProgramOrder, 1, 3), executed)

(***************************************************************************)
(* C1 as stated: the public file receives the noised mean, the private     *)
(* file the exact mean, and in no reachable state does the public file     *)
(* hold the exact mean of the run.                                         *)
(***************************************************************************)
C1_PublicNeverHoldsExact ==
    /\ UpdatedByRun(public_mean_file) =>
          /\ files[public_mean_file][1].cpu = mean_with_noise
          /\ files[public_mean_file][1].cpu # mean
    /\ UpdatedByRun(private_mean_file) =>
          files[private_mean_file][1].cpu = mean

(***************************************************************************)
(* C1 amended: the public file receives the rounded noised mean and the    *)
(* private file the exact mean.  The number in the public file equals the  *)
(* exact mean only when the noise leaves no trace: the exact mean is       *)
(* itself the nearest hundredth of the bounded sum of the series mean and  *)
(* the scaled draw.                                                        *)
(***************************************************************************)
C1_NoisedToPublicExactToPrivate ==
    /\ UpdatedByRun(public_mean_file) =>
          /\ mean_with_noise # NoValue
          /\ files[public_mean_file][1].cpu = mean_with_noise
          /\ files[public_mean_file][1].cpu = mean =>
                NearestHundredth(mean, NoisedTarget(sampler_log, noise))
    /\ UpdatedByRun(private_mean_file) =>
          /\ mean # NoValue
          /\ files[private_mean_file][1].cpu = mean

C1_Witness ==
    /\ pc = "done"
    /\ UpdatedByRun(public_mean_file)
    /\ UpdatedByRun(private_mean_file)
    /\ files[public_mean_file][1].cpu # files[private_mean_file][1].cpu

(***************************************************************************)
(* C2: when the write of the noised record to the public path fails, the   *)
(* write of the exact record to the private path is still performed in     *)
(* that run.                                                               *)
(***************************************************************************)
C2_PrivateWriteSurvivesPublicFailure ==
    (Terminated /\ err = "save_public") => "save_private" \in Range(executed)

(***************************************************************************)
(* C3 as stated: a run that ends with an error has updated neither output  *)
(* file, and a finished run has updated both files or none.                *)
(***************************************************************************)
C3_NoPartialSuccess ==
    /\ pc = "aborted" =>
          /\ ~UpdatedByRun(public_mean_file)
          /\ ~UpdatedByRun(private_mean_file)
    /\ Terminated =>
          (UpdatedByRun(public_mean_file) <=> UpdatedByRun(private_mean_file))

(***************************************************************************)
(* C3 amended: an error before the writes leaves both files as they were;  *)
(* a failed public write updates neither file and leaves the private file  *)
(* as it was; a failed private write leaves the public file updated and    *)
(* the private file not updated; a run that completes updates both.        *)
(***************************************************************************)
C3_PartialSuccessOnlyPublic ==
    /\ (pc = "aborted" /\ err \notin {"save_public", "save_private"}) =>
          /\ Untouched(public_mean_file)
          /\ Untouched(private_mean_file)
    /\ (pc = "aborted" /\ err = "save_public") =>
          /\ ~UpdatedByRun(public_mean_file)
          /\ Untouched(private_mean_file)
    /\ (pc = "aborted" /\ err = "save_private") =>
          /\ UpdatedByRun(public_mean_file)
          /\ ~UpdatedByRun(private_mean_file)
    /\ pc = "done" =>
          /\ err = "none"
          /\ UpdatedByRun(public_mean_file)
          /\ UpdatedByRun(private_mean_file)

C3_Witness ==
    /\ pc = "aborted"
    /\ err = "save_private"
    /\ UpdatedByRun(public_mean_file)
    /\ ~UpdatedByRun(private_mean_file)

(***************************************************************************)
(* C4: an error ends the run.  Once an error is recorded the run is        *)
(* aborted, the failed statement is the last one executed, no further step *)
(* is ever taken, and no statement is executed twice.                      *)
(***************************************************************************)
C4_ErrorState ==
    /\ err # "none" =>
          /\ pc = "aborted"
          /\ executed # <<>>
          /\ executed[Len(executed)] = err
    /\ pc = "aborted" => err # "none"
    /\ \A i, j \in 1..Len(executed) : executed[i] = executed[j] => i = j

C4_ErrorsTerminateNoRetry == []C4_ErrorState /\ [][err = "none"]_vars

C4_Witness ==
    /\ pc = "aborted"
    /\ err = "save_public"
    /\ executed = SubSeq(ProgramOrder, 1, 7)

(***************************************************************************)
(* C5: the collection loop ends after exactly 50 sampler calls with a      *)
(* series of exactly 50 readings in the order they were taken; the series  *)
(* never holds more than 50 readings; sampling is entered once per run.    *)
(***************************************************************************)
C5_SeriesState ==
    /\ Len(cpu_usage_values) \in 0..50
    /\ cpu_usage_values = sampler_log
    /\ Cardinality({i \in 1..Len(executed) :
                       executed[i] = "get_cpu_usage_samples"}) <= 1
    /\ "mean" \in Range(executed) \cup {pc} =>
          /\ Len(cpu_usage_values) = 50
          /\ Len(sampler_log) = 50

C5_SamplingTerminatesWithFifty ==
    /\ []C5_SeriesState
    /\ (pc = "sampling") ~> (pc = "mean" \/ pc = "aborted")

C5_Witness ==
    /\ pc = "mean"
    /\ Len(sampler_log) = 50
    /\ cpu_usage_values[1] # cpu_usage_values[50]

(***************************************************************************)
(* C6: a successful save replaces the content of the file at its path by   *)
(* the one new record and changes no other file, policy or directory.      *)
(***************************************************************************)
SaveSucceeded(step) ==
    /\ pc = step
    /\ executed' = Append(executed, step)
    /\ err' = "none"

OnlyFileWritten(path, cpu_usage) ==
    /\ path \in DOMAIN files'
    /\ Len(files'[path]) = 1
    /\ files'[path][1].cpu = cpu_usage
    /\ files'[path][1].timestamp = strftime(datetime_now(clock'))
    /\ DOMAIN files' = DOMAIN files \cup {path}
    /\ \A q \in DOMAIN files \ {path} : files'[q] = files[q]
    /\ acl' = acl
    /\ dirs' = dirs

C6_SaveWritesExactlyOneFile ==
    [][ /\ SaveSucceeded("save_public") =>
              OnlyFileWritten(public_mean_file, mean_with_noise)
        /\ SaveSucceeded("save_private") =>
              OnlyFileWritten(private_mean_file, mean) ]_vars

C6_Witness ==
    /\ pc = "save_private"
    /\ err = "none"
    /\ Len(files[public_mean_file]) = 1
    /\ files[public_mean_file][1] # OldRecord
    /\ private_mean_file \in DOMAIN files
    /\ files[private_mean_file] = <<OldRecord>>

(***************************************************************************)
(* C7: the noised value is determined by the sample series, the privacy    *)
(* parameters and the noise draw alone: it is the nearest hundredth to the *)
(* bounded sum of the series mean and the scaled draw.                     *)
(***************************************************************************)
C7_NoisedFromSeriesAndDrawOnly ==
    mean_with_noise # NoValue =>
        NearestHundredth(mean_with_noise, NoisedTarget(sampler_log, noise))

C7_Witness ==
    /\ mean_with_noise # NoValue
    /\ mean # NoValue
    /\ noise # 0
    /\ mean_with_noise # mean

(***************************************************************************)
(* C8: the value in the private file is the sum of the samples divided by  *)
(* their number, lies in [0, 100], and is 0 for an all-zero series and 100 *)
(* for an all-100 series.                                                  *)
(***************************************************************************)
C8_ExactIsArithmeticMean ==
    UpdatedByRun(private_mean_file) =>
        LET exact == files[private_mean_file][1].cpu
            total == SumSeq(sampler_log)
        IN  /\ exact.den > 0
            /\ exact.num * Len(sampler_log) = total * exact.den
            /\ 0 <= exact.num
            /\ exact.num <= 100 * exact.den
            /\ Range(sampler_log) = {0} => exact = [num |-> 0, den |-> 1]
            /\ Range(sampler_log) = {100} => exact = [num |-> 100, den |-> 1]

C8_Witness ==
    /\ UpdatedByRun(private_mean_file)
    /\ sampler_log[1] = 100
    /\ sampler_log[50] = 0
    /\ files[private_mean_file][1].cpu.num > 0

(***************************************************************************)
(* C9 as stated: the public folder's policy has the aggregator appended to *)
(* its readers; the private folder's policy is the owner's default policy  *)
(* and never contains the aggregator; a policy exists only in an existing  *)
(* directory, and a data file is written only into a directory that has    *)
(* its policy.                                                             *)
(***************************************************************************)
C9_PrivateNeverNamesAggregator ==
    /\ PublicFolder \in DOMAIN acl =>
          acl[PublicFolder].read = <<config.email, AggregatorEmail>>
    /\ PrivateFolder \in DOMAIN acl =>
          acl[PrivateFolder].read = <<config.email>>
    /\ ("create_private_folder" \in Range(executed) /\ err = "none") =>
          AggregatorEmail \notin Range(acl[PrivateFolder].read)
    /\ PolicyOrder

(***************************************************************************)
(* C9 amended: the public folder's policy is the owner's default policy    *)
(* with the aggregator appended to its readers; the private folder's       *)
(* policy is the owner's default policy with nothing appended, so its only *)
(* reader is the owner and it names the aggregator exactly when the owner  *)
(* is the aggregator; the ordering of policies, directories and data files *)
(* is as stated.                                                           *)
(***************************************************************************)
C9_PoliciesScopedPerTier ==
    /\ PublicFolder \in DOMAIN acl =>
          /\ acl[PublicFolder].read = <<config.email, AggregatorEmail>>
          /\ acl[PublicFolder].admin = <<config.email>>
          /\ acl[PublicFolder].write = <<config.email>>
    /\ PrivateFolder \in DOMAIN acl =>
          /\ acl[PrivateFolder].read = <<config.email>>
          /\ acl[PrivateFolder].admin = <<config.email>>
          /\ acl[PrivateFolder].write = <<config.email>>
          /\ (AggregatorEmail \in Range(acl[PrivateFolder].read)
                 <=> config.email = AggregatorEmail)
    /\ client.loaded => client.email = config.email
    /\ PolicyOrder

C9_Witness ==
    /\ pc = "done"
    /\ config.email # AggregatorEmail
    /\ AggregatorEmail \in Range(acl[PublicFolder].read)
    /\ AggregatorEmail \notin Range(acl[PrivateFolder].read)
    /\ UpdatedByRun(public_mean_file)
    /\ UpdatedByRun(private_mean_file)

(***************************************************************************)
(* C10: the statements run in one fixed order; both directories exist      *)
(* before a write is attempted; the private file is never updated in a run *)
(* that did not first update the public file.                              *)
(***************************************************************************)
C10_FixedOrderPublicBeforePrivate ==
    /\ IsPrefix(executed, ProgramOrder)
    /\ (pc = "save_public" \/ "save_public" \in Range(executed)) =>
          Folders \subseteq dirs
    /\ ~Untouched(private_mean_file) => UpdatedByRun(public_mean_file)

C10_Witness ==
    /\ Terminated
    /\ UpdatedByRun(public_mean_file)
    /\ Untouched(private_mean_file)
    /\ executed = ProgramOrder

====
